---- MODULE Spec2Model ----
(***************************************************************************)
(* Model of src/unsplash.py: the UnsplashImage URL builder (adjust, url,   *)
(* reset) and the Unsplash client (get, get_random_image).                 *)
(*                                                                         *)
(* Python strings are sequences of one-character strings, so that the      *)
(* f-string formatting, the decimal rendering of integers and              *)
(* str.strip(',') are computed character by character.  A Python dict is   *)
(* a sequence of key/value items, which keeps its insertion order.         *)
(***************************************************************************)
EXTENDS Integers, Sequences, FiniteSets, TLC

VARIABLES
    client,     \* the Unsplash object: access_key, secret_key, base_url
    raw_url,    \* UnsplashImage.raw_url
    edits,      \* UnsplashImage.edits, an insertion-ordered dict
    crop,       \* UnsplashImage.crop
    user,       \* UnsplashImage.user
    op,         \* the operation that ran last
    args,       \* the arguments of the last adjust call
    url_ret,    \* the string returned by the last read of url
    call,       \* the arguments of the last get / get_random_image call
    request,    \* what the last call handed to requests.get
    response,   \* what the network answered to it
    result      \* the outcome of the last get / get_random_image call

vars == <<client, raw_url, edits, crop, user, op, args, url_ret,
          call, request, response, result>>

imgvars == <<raw_url, edits, crop, user>>

(***************************************************************************)
(* Bounds of the model.                                                    *)
(***************************************************************************)
MaxDim == 12        \* the largest width an adjust call passes
MaxCrop == 2        \* the longest crop list an adjust call passes

(***************************************************************************)
(* Python values.                                                          *)
(***************************************************************************)
PyNone == [t |-> "none", i |-> 0, s |-> <<>>, l |-> <<>>]
PyInt(n) == [t |-> "int", i |-> n, s |-> <<>>, l |-> <<>>]
PyStr(str) == [t |-> "str", i |-> 0, s |-> str, l |-> <<>>]
PyList(xs) == [t |-> "list", i |-> 0, s |-> <<>>, l |-> xs]
PyDict(items) == [t |-> "dict", i |-> 0, s |-> <<>>, l |-> items]

\* Python truth value testing: None, 0, '' and [] are false.
Truthy(v) ==
    CASE v.t = "none" -> FALSE
      [] v.t = "int"  -> v.i # 0
      [] v.t = "str"  -> Len(v.s) > 0
      [] v.t = "list" -> Len(v.l) > 0
      [] v.t = "dict" -> Len(v.l) > 0

Digits == <<"0", "1", "2", "3", "4", "5", "6", "7", "8", "9">>

\* str(n) of an int: decimal, most significant digit first.
RECURSIVE IntStr(_)
IntStr(n) ==
    IF n < 0 THEN <<"-">> \o IntStr(-n)
    ELSE IF n < 10 THEN <<Digits[n + 1]>>
    ELSE IntStr(n \div 10) \o <<Digits[(n % 10) + 1]>>

\* What an f-string replacement field {v} renders.
Format(v) ==
    CASE v.t = "none" -> <<"N", "o", "n", "e">>
      [] v.t = "int"  -> IntStr(v.i)
      [] v.t = "str"  -> v.s

\* str.strip(chars) for a one-character chars: both ends are stripped.
RECURSIVE LStrip(_, _)
LStrip(str, c) ==
    IF Len(str) > 0 /\ Head(str) = c THEN LStrip(Tail(str), c) ELSE str

RECURSIVE RStrip(_, _)
RStrip(str, c) ==
    IF Len(str) > 0 /\ str[Len(str)] = c
    THEN RStrip(SubSeq(str, 1, Len(str) - 1), c)
    ELSE str

Strip(str, c) == RStrip(LStrip(str, c), c)

(***************************************************************************)
(* Python dicts: a sequence of items [k, v] in insertion order.            *)
(***************************************************************************)
DictKeys(d) == {d[i].k : i \in 1..Len(d)}

DictGet(d, key) == d[CHOOSE i \in 1..Len(d) : d[i].k = key].v

\* A dict whose assignment deletes the key and inserts it again, last.
DictSetLast(d, key, val) ==
    Append(SelectSeq(d, LAMBDA it : it.k # key), [k |-> key, v |-> val])

\* d[key] = val: an existing key keeps its position, a new key goes last.
DictSet(d, key, val) ==
    IF key \in DictKeys(d)
    THEN [i \in 1..Len(d) |-> IF d[i].k = key THEN [k |-> key, v |-> val] ELSE d[i]]
    ELSE Append(d, [k |-> key, v |-> val])

K_width == <<"w", "i", "d", "t", "h">>
K_height == <<"h", "e", "i", "g", "h", "t">>
K_format == <<"f", "o", "r", "m", "a", "t">>
K_fit == <<"f", "i", "t">>

\* The dict literal of __init__ and reset: four keys, all None.
NoEdits ==
    << [k |-> K_width, v |-> PyNone], [k |-> K_height, v |-> PyNone],
       [k |-> K_format, v |-> PyNone], [k |-> K_fit, v |-> PyNone] >>

(***************************************************************************)
(* UnsplashImage                                                           *)
(***************************************************************************)
\* UnsplashImage.__init__(raw_url, user)
NewImage(raw, usr) ==
    [raw_url |-> raw, edits |-> NoEdits, crop |-> PyNone, user |-> usr]

\* An adjust that tests "is not None" where the code tests truth.
AdjustEditNotNone(d, key, arg) == IF arg # PyNone THEN DictSet(d, key, arg) ELSE d

\* The edits after adjust(width, height, format_, crop, fit).
AdjustEdit(d, key, arg) == IF Truthy(arg) THEN DictSet(d, key, arg) ELSE d

AdjustEdits(d, a) ==
    AdjustEdit(AdjustEdit(AdjustEdit(AdjustEdit(d,
        K_width, a.width), K_height, a.height), K_format, a.format_), K_fit, a.fit)

\* An adjust that stores every crop argument that is not None, empty or not.
AdjustCropNotNone(c, a) == IF a.crop # PyNone THEN a.crop ELSE c

\* An adjust that assigns the crop argument unconditionally.
AdjustCropAssign(c, a) == a.crop

\* The crop after adjust(..., crop, ...).
AdjustCrop(c, a) == IF Truthy(a.crop) THEN a.crop ELSE c

\* The loop of url over the edits, from item i on.
RECURSIVE UrlEdits(_, _, _)
UrlEdits(image_url, d, i) ==
    IF i > Len(d) THEN image_url
    ELSE IF ~Truthy(d[i].v) THEN UrlEdits(image_url, d, i + 1)
    ELSE UrlEdits(image_url \o <<"&">> \o d[i].k \o <<"=">> \o Format(d[i].v),
                  d, i + 1)

\* The loop of url over the crop list, from entry i on.
RECURSIVE UrlCrop(_, _, _)
UrlCrop(image_url, c, i) ==
    IF i > Len(c) THEN image_url
    ELSE UrlCrop(image_url \o Format(c[i]) \o <<",">>, c, i + 1)

CropKey == <<"&", "c", "r", "o", "p", "=">>

\* A url that tests the crop against None where the code tests truth.
UrlCropNotNone(raw, d, c) ==
    LET image_url == UrlEdits(raw.s, d, 1) IN
    IF c = PyNone THEN image_url
    ELSE Strip(UrlCrop(image_url \o CropKey, c.l, 1), ",")

\* The url property.
Url(raw, d, c) ==
    LET image_url == UrlEdits(raw.s, d, 1) IN
    IF ~Truthy(c) THEN image_url
    ELSE Strip(UrlCrop(image_url \o CropKey, c.l, 1), ",")

(***************************************************************************)
(* Unsplash                                                                *)
(***************************************************************************)
DefaultBaseUrl ==
    << "h", "t", "t", "p", "s", ":", "/", "/", "a", "p", "i", ".", "u", "n",
       "s", "p", "l", "a", "s", "h", ".", "c", "o", "m" >>

\* Unsplash.__init__(access_key, secret_key, base_url)
NewClient(access, secret, base) ==
    [access_key |-> access, secret_key |-> secret, base_url |-> base]

\* The outcome of a call: a returned value or a raised exception.
Return(v) == [kind |-> "return", val |-> v, exc |-> "", key |-> ""]
Raise(e, k) == [kind |-> "raise", val |-> PyNone, exc |-> e, key |-> k]

\* An ok that holds for the 2xx statuses only.
Ok2xx(status) == 200 <= status /\ status < 300

\* requests' Response.ok: raise_for_status() raises for 400 <= status < 600.
Ok(status) == ~(400 <= status /\ status < 600)

ClientIdKey == <<"?", "c", "l", "i", "e", "n", "t", "_", "i", "d", "=">>

\* The request_url of get.
RequestUrl(c, endpoint) ==
    c.base_url \o <<"/">> \o endpoint \o <<"/">> \o ClientIdKey \o c.access_key

\* What get(endpoint, params) hands to requests.get.
GetRequest(c, endpoint, params) ==
    [url |-> RequestUrl(c, endpoint), params |-> params]

\* A get that returns None, not {}, for a response that is not ok.
GetOutcomeNone(resp) ==
    IF resp.net = "error" THEN Raise("ConnectionError", "")
    ELSE IF Ok(resp.status)
         THEN IF resp.json THEN Return(resp.body)
              ELSE Raise("JSONDecodeError", "")
    ELSE Return(PyNone)

\* The outcome of get, given what the network answered.
GetOutcome(resp) ==
    IF resp.net = "error" THEN Raise("ConnectionError", "")
    ELSE IF Ok(resp.status)
         THEN IF resp.json THEN Return(resp.body)
              ELSE Raise("JSONDecodeError", "")
    ELSE Return(PyDict(<<>>))

\* v[key], as an outcome.
Subscript(v, key) ==
    IF v.t # "dict" THEN Raise("TypeError", "")
    ELSE IF key \notin DictKeys(v.l) THEN Raise("KeyError", key)
    ELSE Return(DictGet(v.l, key))

\* o[key] of an outcome o: an exception raised earlier propagates.
Then(o, key) == IF o.kind = "raise" THEN o ELSE Subscript(o.val, key)

\* The params dict get_random_image builds.
RandomParams(query, orientation) ==
    LET p1 == IF Truthy(query) THEN DictSet(<<>>, "query", query) ELSE <<>>
        p2 == IF Truthy(orientation) THEN DictSet(p1, "orientation", orientation)
              ELSE p1
    IN PyDict(p2)

\* A get_random_image that forgets to pass user= to the image.
RandomOutcomeNoUser(resp) ==
    LET got == GetOutcome(resp)
        raw == Then(Then(got, "urls"), "raw")
        name == Then(Then(got, "user"), "name")
    IN IF got.kind = "raise" THEN got
       ELSE IF raw.kind = "raise" THEN raw
       ELSE IF name.kind = "raise" THEN name
       ELSE Return(NewImage(raw.val, PyNone))

\* The outcome of get_random_image, given what the network answered.
RandomOutcome(resp) ==
    LET got == GetOutcome(resp)
        raw == Then(Then(got, "urls"), "raw")
        name == Then(Then(got, "user"), "name")
    IN IF got.kind = "raise" THEN got
       ELSE IF raw.kind = "raise" THEN raw
       ELSE IF name.kind = "raise" THEN name
       ELSE Return(NewImage(raw.val, name.val))

(***************************************************************************)
(* The inputs the operations are called with.                              *)
(***************************************************************************)
S_x == <<"h", ":", "/", "x">>
S_cx == <<",", "x">>
S_png == <<"p", "n", "g">>
S_max == <<"m", "a", "x">>
S_top == <<"t", "o", "p">>
S_faces == <<"f", "a", "c", "e", "s">>
S_Alice == <<"A", "l", "i", "c", "e">>
S_cat == <<"c", "a", "t">>
S_landscape == <<"l", "a", "n", "d", "s", "c", "a", "p", "e">>
S_key == <<"k", "1">>
S_random == <<"p", "h", "o", "t", "o", "s", "/", "r", "a", "n", "d", "o", "m">>

RawUrls == {PyStr(S_x), PyStr(S_cx)}

\* The images a caller constructs directly: UnsplashImage(raw_url) and
\* UnsplashImage(raw_url, user).
Images == {NewImage(PyStr(S_x), PyNone), NewImage(PyStr(S_cx), PyStr(S_Alice))}

Widths == {PyNone, PyInt(0), PyInt(MaxDim)}
Heights == {PyNone, PyInt(5)}
Formats == {PyNone, PyStr(S_png)}
Fits == {PyNone, PyStr(S_max)}
Tags == {PyStr(S_top), PyStr(S_faces)}

\* The lists of at most n distinct elements of S.
ListsUpTo(S, n) ==
    {xs \in UNION {[1..m -> S] : m \in 0..n} :
        \A i, j \in 1..Len(xs) : xs[i] = xs[j] => i = j}

Crops == {PyNone} \cup {PyList(xs) : xs \in ListsUpTo(Tags, MaxCrop)}

AdjustArgs ==
    [width : Widths, height : Heights, format_ : Formats, crop : Crops, fit : Fits]

NoArgs ==
    [width |-> PyNone, height |-> PyNone, format_ |-> PyNone, crop |-> PyNone,
     fit |-> PyNone]

Queries == {PyNone, PyStr(<<>>), PyStr(S_cat)}
Orientations == {PyNone, PyStr(S_landscape)}
Endpoints == {S_random}
Params == {PyNone, PyDict(<<>>), PyDict(<<[k |-> "query", v |-> PyStr(S_cat)]>>)}

Statuses == {200, 300, 404, 503}

Item(key, val) == [k |-> key, v |-> val]

\* The JSON bodies a response carries: the random-photo shape, and the
\* shapes that lack urls, urls.raw, user or user.name.
Bodies ==
    {PyDict(<<>>)}
    \cup {PyDict(<<Item("user", PyDict(<<Item("name", PyStr(S_Alice))>>))>>)}
    \cup {PyDict(<<Item("urls", PyDict(<<>>)),
                   Item("user", PyDict(<<Item("name", PyStr(S_Alice))>>))>>)}
    \cup {PyDict(<<Item("urls", PyDict(<<Item("raw", PyStr(S_x))>>))>>)}
    \cup {PyDict(<<Item("urls", PyDict(<<Item("raw", PyStr(S_x))>>)),
                   Item("user", PyDict(<<>>))>>)}
    \cup {PyDict(<<Item("urls", PyDict(<<Item("raw", r)>>)),
                   Item("user", PyDict(<<Item("name", PyStr(S_Alice))>>))>>)
          : r \in RawUrls}

\* What the network answers: a transport failure, or a response with a status
\* and a body that is JSON or is not.
NetError == [net |-> "error", status |-> 0, json |-> FALSE, body |-> PyNone]

Responses ==
    {NetError}
    \cup [net : {"response"}, status : Statuses, json : {TRUE}, body : Bodies]
    \cup [net : {"response"}, status : Statuses, json : {FALSE}, body : {PyNone}]

NoCall == [endpoint |-> <<>>, params |-> PyNone, query |-> PyNone,
           orientation |-> PyNone]
NoRequest == [url |-> <<>>, params |-> PyNone]
NoResult == Return(PyNone)

(***************************************************************************)
(* The state machine.                                                      *)
(***************************************************************************)
NoHttp ==
    /\ call' = NoCall
    /\ request' = NoRequest
    /\ response' = NetError
    /\ result' = NoResult

\* A client and an image, both freshly constructed.
Init ==
    /\ client = NewClient(S_key, <<>>, DefaultBaseUrl)
    /\ \E img \in Images :
         /\ raw_url = img.raw_url
         /\ edits = img.edits
         /\ crop = img.crop
         /\ user = img.user
    /\ op = "init"
    /\ args = NoArgs
    /\ url_ret = <<>>
    /\ call = NoCall
    /\ request = NoRequest
    /\ response = NetError
    /\ result = NoResult

\* image.adjust(width, height, format_, crop, fit)
Adjust ==
    \E a \in AdjustArgs :
        /\ edits' = AdjustEdits(edits, a)
        /\ crop' = AdjustCrop(crop, a)
        /\ op' = "adjust"
        /\ args' = a
        /\ url_ret' = <<>>
        /\ NoHttp
        /\ UNCHANGED <<client, raw_url, user>>

\* A url that accumulates into self.raw_url instead of a local.
ReadUrlInPlace ==
    /\ url_ret' = Url(raw_url, edits, crop)
    /\ raw_url' = PyStr(Url(raw_url, edits, crop))
    /\ op' = "url"
    /\ args' = NoArgs
    /\ NoHttp
    /\ UNCHANGED <<client, edits, crop, user>>

\* image.url
ReadUrl ==
    /\ url_ret' = Url(raw_url, edits, crop)
    /\ op' = "url"
    /\ args' = NoArgs
    /\ NoHttp
    /\ UNCHANGED <<client, raw_url, edits, crop, user>>

\* image.reset()
Reset ==
    /\ edits' = NoEdits
    /\ crop' = PyList(<<>>)
    /\ op' = "reset"
    /\ args' = NoArgs
    /\ url_ret' = <<>>
    /\ NoHttp
    /\ UNCHANGED <<client, raw_url, user>>

\* client.get(endpoint, params)
Get ==
    \E endpoint \in Endpoints, params \in Params, resp \in Responses :
        /\ call' = [NoCall EXCEPT !.endpoint = endpoint, !.params = params]
        /\ request' = GetRequest(client, endpoint, params)
        /\ response' = resp
        /\ result' = GetOutcome(resp)
        /\ op' = "get"
        /\ args' = NoArgs
        /\ url_ret' = <<>>
        /\ UNCHANGED <<client, raw_url, edits, crop, user>>

\* image = client.get_random_image(query, orientation): the image is bound
\* only when the call returns.
GetRandomImage ==
    \E query \in Queries, orientation \in Orientations, resp \in Responses :
        LET params == RandomParams(query, orientation)
            out == RandomOutcome(resp)
        IN
        /\ call' = [NoCall EXCEPT !.endpoint = S_random, !.params = params,
                                  !.query = query, !.orientation = orientation]
        /\ request' = GetRequest(client, S_random, params)
        /\ response' = resp
        /\ result' = out
        /\ IF out.kind = "return"
           THEN /\ raw_url' = out.val.raw_url
                /\ edits' = out.val.edits
                /\ crop' = out.val.crop
                /\ user' = out.val.user
           ELSE UNCHANGED <<raw_url, edits, crop, user>>
        /\ op' = "get_random_image"
        /\ args' = NoArgs
        /\ url_ret' = <<>>
        /\ UNCHANGED client

ImageNext == Adjust \/ ReadUrl \/ Reset
ClientNext == Get \/ GetRandomImage
Next == Adjust \/ ReadUrl \/ Reset \/ Get \/ GetRandomImage

\* The whole program.
Spec == Init /\ [][Next]_vars
\* The operations on one image.
ImageSpec == Init /\ [][ImageNext]_vars
\* The operations of the client.
ClientSpec == Init /\ [][ClientNext]_vars

(***************************************************************************)
(* Vocabulary of the properties.                                           *)
(***************************************************************************)
EditKeys == {K_width, K_height, K_format, K_fit}

IsSet(v) == v # PyNone

\* '&key=value' for a set field, nothing for an unset one.
Pair(key, d) ==
    IF IsSet(DictGet(d, key))
    THEN <<"&">> \o key \o <<"=">> \o Format(DictGet(d, key))
    ELSE <<>>

\* The set edit fields in the order width, height, format, fit.
EditPairs(d) ==
    Pair(K_width, d) \o Pair(K_height, d) \o Pair(K_format, d) \o Pair(K_fit, d)

\* The tags joined with single commas, no trailing comma.
RECURSIVE JoinTags(_)
JoinTags(tags) ==
    IF Len(tags) = 0 THEN <<>>
    ELSE IF Len(tags) = 1 THEN Format(tags[1])
    ELSE Format(tags[1]) \o <<",">> \o JoinTags(Tail(tags))

Is2xx(status) == 200 <= status /\ status < 300

HasPath(body, k1, k2) ==
    /\ body.t = "dict"
    /\ k1 \in DictKeys(body.l)
    /\ DictGet(body.l, k1).t = "dict"
    /\ k2 \in DictKeys(DictGet(body.l, k1).l)

PathGet(body, k1, k2) == DictGet(DictGet(body.l, k1).l, k2)

(***************************************************************************)
(* C1.  In every state reached by adjust and reset calls, the edits loop   *)
(* of url yields raw_url followed by '&key=value' for exactly the edit     *)
(* fields that are set (not None), in the order width, height, format,     *)
(* fit; with no crop applied that is the url, and with no edit set either  *)
(* the url is raw_url unchanged.                                           *)
(***************************************************************************)
C1_UrlRendersSetEdits ==
    /\ UrlEdits(raw_url.s, edits, 1) = raw_url.s \o EditPairs(edits)
    /\ ~Truthy(crop) => Url(raw_url, edits, crop) = raw_url.s \o EditPairs(edits)
    /\ (op = "url" /\ ~Truthy(crop)) => url_ret = raw_url.s \o EditPairs(edits)
    /\ (op = "url" /\ ~Truthy(crop) /\ \A key \in EditKeys : ~IsSet(DictGet(edits, key)))
         => url_ret = raw_url.s

C1_Witness ==
    /\ op = "url"
    /\ ~Truthy(crop)
    /\ DictGet(edits, K_width) = PyInt(12)
    /\ DictGet(edits, K_height) = PyNone
    /\ DictGet(edits, K_format) = PyNone
    /\ DictGet(edits, K_fit) = PyStr(S_max)
    /\ url_ret = S_x \o <<"&", "w", "i", "d", "t", "h", "=", "1", "2",
                          "&", "f", "i", "t", "=", "m", "a", "x">>

(***************************************************************************)
(* C2, as claimed.  Every adjust call overwrites each field whose argument *)
(* is not None with that argument, and leaves a field whose argument is    *)
(* None untouched.                                                         *)
(***************************************************************************)
C2_Claimed_NonNullOverwrites ==
    [][op' = "adjust" =>
        /\ \A key \in EditKeys :
             LET arg == CASE key = K_width  -> args'.width
                          [] key = K_height -> args'.height
                          [] key = K_format -> args'.format_
                          [] key = K_fit    -> args'.fit
             IN DictGet(edits', key) = IF IsSet(arg) THEN arg ELSE DictGet(edits, key)
        /\ crop' = IF IsSet(args'.crop) THEN args'.crop ELSE crop]_vars

(***************************************************************************)
(* C2, amended.  Every adjust call overwrites each field whose argument is *)
(* true in Python's sense (not None, not 0, not '' and not []) with that   *)
(* argument, and leaves a field whose argument is None or false untouched. *)
(***************************************************************************)
C2_TruthyOverwrites ==
    [][op' = "adjust" =>
        /\ \A key \in EditKeys :
             LET arg == CASE key = K_width  -> args'.width
                          [] key = K_height -> args'.height
                          [] key = K_format -> args'.format_
                          [] key = K_fit    -> args'.fit
             IN DictGet(edits', key) =
                    IF IsSet(arg) /\ arg # PyInt(0) /\ arg # PyStr(<<>>)
                    THEN arg ELSE DictGet(edits, key)
        /\ crop' = IF IsSet(args'.crop) /\ args'.crop # PyList(<<>>)
                   THEN args'.crop ELSE crop]_vars

C2_Witness ==
    /\ op = "adjust"
    /\ args.width = PyInt(0)
    /\ DictGet(edits, K_width) = PyInt(MaxDim)
    /\ args.height = PyInt(5)
    /\ DictGet(edits, K_height) = PyInt(5)
    /\ args.crop = PyList(<<>>)
    /\ crop = PyList(<<PyStr(S_faces), PyStr(S_top)>>)

(***************************************************************************)
(* C3.  After reset() all four edit fields are None, crop is the empty     *)
(* list, which is not the None of a fresh image, and url is raw_url; a     *)
(* read of url in that state returns raw_url.                              *)
(***************************************************************************)
C3_ResetClears ==
    /\ op = "reset" =>
        /\ \A key \in EditKeys : DictGet(edits, key) = PyNone
        /\ crop = PyList(<<>>)
        /\ crop # NewImage(raw_url, user).crop
        /\ Url(raw_url, edits, crop) = raw_url.s
    /\ (op = "url" /\ crop = PyList(<<>>)
            /\ \A key \in EditKeys : DictGet(edits, key) = PyNone)
         => url_ret = raw_url.s

C3_Witness ==
    /\ op = "url"
    /\ crop = PyList(<<>>)
    /\ \A key \in EditKeys : DictGet(edits, key) = PyNone
    /\ raw_url = PyStr(S_cx)
    /\ url_ret = S_cx

(***************************************************************************)
(* C4, as claimed.  Whenever a crop is in effect, url is raw_url, then the *)
(* set edit fields, then '&crop=' and the crop tags joined with single     *)
(* commas: the crop block is last, has no trailing comma, and nothing else *)
(* of the URL is altered.                                                  *)
(***************************************************************************)
C4_Claimed_CropBlockLast ==
    (op = "url" /\ Truthy(crop))
        => url_ret = raw_url.s \o EditPairs(edits) \o CropKey \o JoinTags(crop.l)

(***************************************************************************)
(* C5.  A read of url changes no field of the image or of the client, two  *)
(* reads in a row return the same string, and every read returns the url   *)
(* of the state it is made in.                                             *)
(***************************************************************************)
C5_UrlIsPure ==
    [][op' = "url" =>
        /\ UNCHANGED <<raw_url, edits, crop, user, client>>
        /\ op = "url" => url_ret' = url_ret
        /\ url_ret' = Url(raw_url', edits', crop')]_vars

C5_Witness ==
    /\ op = "url"
    /\ DictGet(edits, K_width) = PyInt(MaxDim)
    /\ crop = PyList(<<PyStr(S_top)>>)
    /\ url_ret # raw_url.s

(***************************************************************************)
(* C6, as claimed.  get returns the parsed JSON body when the response     *)
(* status is 2xx and an empty mapping for every other status.              *)
(***************************************************************************)
C6_Claimed_BodyIff2xx ==
    (op = "get" /\ response.net = "response" /\ response.json) =>
        /\ Is2xx(response.status) => result = Return(response.body)
        /\ ~Is2xx(response.status) => result = Return(PyDict(<<>>))

(***************************************************************************)
(* C6, amended.  get returns the parsed JSON body exactly when the         *)
(* response is ok, which is every status outside 400..599 (a 3xx too), and *)
(* the body is JSON; for every status in 400..599 it returns an empty      *)
(* mapping and raises nothing; the client's fields are the same after the  *)
(* call.                                                                   *)
(***************************************************************************)
C6_BodyIffOk ==
    (op = "get" /\ response.net = "response") =>
        /\ (response.status < 400 \/ response.status >= 600) =>
              IF response.json THEN result = Return(response.body)
              ELSE result.kind = "raise" /\ result.exc = "JSONDecodeError"
        /\ (400 <= response.status /\ response.status < 600) =>
              result = Return(PyDict(<<>>))
        /\ client = NewClient(S_key, <<>>, DefaultBaseUrl)

C6_Witness ==
    /\ op = "get"
    /\ response.net = "response"
    /\ response.status = 300
    /\ response.json
    /\ HasPath(response.body, "urls", "raw")
    /\ result = Return(response.body)

(***************************************************************************)
(* C7.  For every 2xx random-photo response whose body holds urls.raw and  *)
(* user.name, get_random_image returns a new image with that raw_url and   *)
(* that user, all four edits None and crop None; the request's params hold *)
(* query and orientation only when the caller passed them.                 *)
(***************************************************************************)
C7_RandomImageFromResponse ==
    op = "get_random_image" =>
        /\ (/\ response.net = "response"
            /\ Is2xx(response.status)
            /\ response.json
            /\ HasPath(response.body, "urls", "raw")
            /\ HasPath(response.body, "user", "name"))
           => /\ result.kind = "return"
              /\ raw_url = PathGet(response.body, "urls", "raw")
              /\ user = PathGet(response.body, "user", "name")
              /\ Len(edits) = 4
              /\ DictKeys(edits) = EditKeys
              /\ \A key \in EditKeys : DictGet(edits, key) = PyNone
              /\ crop = PyNone
              /\ result.val = [raw_url |-> raw_url, edits |-> edits,
                               crop |-> crop, user |-> user]
        /\ request.params.t = "dict"
        /\ DictKeys(request.params.l) \subseteq {"query", "orientation"}
        /\ "query" \in DictKeys(request.params.l) =>
              IsSet(call.query) /\ DictGet(request.params.l, "query") = call.query
        /\ "orientation" \in DictKeys(request.params.l) =>
              /\ IsSet(call.orientation)
              /\ DictGet(request.params.l, "orientation") = call.orientation

C7_Witness ==
    /\ op = "get_random_image"
    /\ response.status = 200
    /\ result.kind = "return"
    /\ raw_url = PyStr(S_x)
    /\ user = PyStr(S_Alice)
    /\ call.query = PyStr(S_cat)
    /\ call.orientation = PyNone
    /\ DictKeys(request.params.l) = {"query"}

(***************************************************************************)
(* C8, as claimed.  Whenever the response is not 2xx, get_random_image     *)
(* fails with a key-lookup error and returns no image.                     *)
(***************************************************************************)
C8_Claimed_Non2xxKeyError ==
    (op = "get_random_image" /\ response.net = "response"
        /\ ~Is2xx(response.status))
      => result.kind = "raise" /\ result.exc = "KeyError"

(***************************************************************************)
(* C8, amended.  Whenever the response has a status in 400..599 (it is not *)
(* ok), get returns an empty mapping and get_random_image fails with the   *)
(* KeyError of the key 'urls' and returns no image; that is the very       *)
(* failure of a 2xx response whose body lacks urls, and a 2xx response     *)
(* that lacks urls.raw or user.name fails with a KeyError too.             *)
(***************************************************************************)
C8_NotOkKeyError ==
    (op = "get_random_image" /\ response.net = "response"
        /\ 400 <= response.status /\ response.status < 600)
      => /\ GetOutcome(response) = Return(PyDict(<<>>))
         /\ result.kind = "raise"
         /\ result.exc = "KeyError"
         /\ result.key = "urls"
         /\ result.val = PyNone
         /\ \A r \in Responses :
              (r.net = "response" /\ Is2xx(r.status) /\ r.json) =>
                /\ "urls" \notin DictKeys(r.body.l) => RandomOutcome(r) = result
                /\ (~HasPath(r.body, "urls", "raw") \/ ~HasPath(r.body, "user", "name"))
                     => /\ RandomOutcome(r).kind = "raise"
                        /\ RandomOutcome(r).exc = "KeyError"

C8_Witness ==
    /\ op = "get_random_image"
    /\ response.net = "response"
    /\ response.status = 404
    /\ HasPath(response.body, "urls", "raw")
    /\ HasPath(response.body, "user", "name")
    /\ result = Raise("KeyError", "urls")

(***************************************************************************)
(* C9, as claimed.  In every state edits holds exactly the four keys, and  *)
(* crop, when it is not None, is a non-empty list.                         *)
(***************************************************************************)
C9_Claimed_CropNonEmpty ==
    /\ Len(edits) = 4
    /\ DictKeys(edits) = EditKeys
    /\ IsSet(crop) => crop.t = "list" /\ Len(crop.l) > 0

(***************************************************************************)
(* C9, amended.  In every state edits holds exactly the four keys, and     *)
(* crop is None, or a list; adjust never makes it an empty list: only      *)
(* reset does, and it stays empty until an adjust passes a non-empty crop. *)
(***************************************************************************)
C9_FourKeysCropEmptyOnlyByReset ==
    /\ Len(edits) = 4 /\ DictKeys(edits) = EditKeys /\ crop = PyNone
    /\ [][/\ Len(edits') = 4
          /\ DictKeys(edits') = EditKeys
          /\ IsSet(crop') => crop'.t = "list"
          /\ (crop' = PyList(<<>>) /\ crop # PyList(<<>>)) => op' = "reset"]_vars

C9_Witness ==
    /\ op = "adjust"
    /\ args.crop = PyList(<<>>)
    /\ args.width = PyInt(MaxDim)
    /\ crop = PyList(<<PyStr(S_top)>>)

(***************************************************************************)
(* C10.  No adjust, reset or read of url changes raw_url or user, and an   *)
(* adjust changes only fields whose argument it was given (not None).      *)
(***************************************************************************)
C10_FixedAtConstruction ==
    [][op' \in {"adjust", "reset", "url"} =>
        /\ raw_url' = raw_url
        /\ user' = user
        /\ op' = "adjust" =>
            /\ DictGet(edits', K_width) # DictGet(edits, K_width) => IsSet(args'.width)
            /\ DictGet(edits', K_height) # DictGet(edits, K_height) => IsSet(args'.height)
            /\ DictGet(edits', K_format) # DictGet(edits, K_format) => IsSet(args'.format_)
            /\ DictGet(edits', K_fit) # DictGet(edits, K_fit) => IsSet(args'.fit)
            /\ crop' # crop => IsSet(args'.crop)]_vars

C10_Witness ==
    /\ op = "adjust"
    /\ args.width = PyInt(MaxDim)
    /\ args.height = PyNone
    /\ args.crop = PyNone
    /\ DictGet(edits, K_height) = PyInt(5)
    /\ crop = PyList(<<PyStr(S_top), PyStr(S_faces)>>)
    /\ raw_url = PyStr(S_cx)
    /\ user = PyStr(S_Alice)

====
